---- MODULE Spec2Model ----
(***************************************************************************)
(* leChef: the Convex backend (convex/recipes.ts, convex/weeklyPlans.ts,   *)
(* convex/ai.ts) as a state machine.  Every Convex query and mutation is   *)
(* one transaction and is modelled as one action; a Convex action          *)
(* (generatePlan) is a sequence of transactions and is modelled as a       *)
(* process with a program counter.  Strings whose content is inspected     *)
(* (titles, slugs, ingredient names) are sequences of one-character        *)
(* strings.                                                                *)
(***************************************************************************)
EXTENDS Integers, Sequences, FiniteSets, TLC

VARIABLES
    recipes,        \* table "recipes":      _id -> document
    ingredients,    \* table "ingredients":  rows in creation order
    recipeSteps,    \* table "recipeSteps":  rows in creation order
    storage,        \* _storage: ids of the stored files
    uploaded,       \* storage ids handed out so far (ids are never reused)
    weeklyPlans,    \* table "weeklyPlans":  _id -> document
    nextRecipeId,   \* next fresh recipes _id
    nextPlanId,     \* next fresh weeklyPlans _id
    result,         \* what the last query / mutation returned or threw
    ai,             \* the running callOpenAI invocation
    gp,             \* the running generatePlan actions, one per process
    form,           \* the recipe form of one client: its image state
    page            \* the weekly-plan edit page of each browser tab

dbVars == <<recipes, ingredients, recipeSteps, storage, uploaded,
            weeklyPlans, nextRecipeId, nextPlanId>>
vars == <<recipes, ingredients, recipeSteps, storage, uploaded,
          weeklyPlans, nextRecipeId, nextPlanId, result, ai, gp, form, page>>

----------------------------------------------------------------------------
(* Bounds *)

MaxRecipes == 2         \* recipes documents ever inserted
MaxPlans == 2           \* weeklyPlans documents ever inserted
MaxUploads == 1         \* files ever uploaded
MaxSlugRecipes == 8     \* recipes documents ever inserted while plans are generated

----------------------------------------------------------------------------
(* Values *)

Users == {"alice", "bob"}
Anon == "anon"                      \* getUserIdentity() resolved to null
Callers == Users \cup {Anon}
Undefined == 0                      \* an optional storage id that is absent
NoString == <<"undefined">>         \* an optional string that is absent
NoRecipe == 0                       \* days[i].recipeId absent
NoId == 0

Soup == <<"S", "o", "u", "p">>
soup == <<"s", "o", "u", "p">>
Stew == <<"S", "t", "e", "w">>
Salt == <<"S", "a", "l", "t">>
saltSp == <<" ", "s", "a", "l", "t", " ">>
Rice == <<"R", "i", "c", "e">>
Boil == <<"b", "o", "i", "l">>
Stir == <<"s", "t", "i", "r">>

----------------------------------------------------------------------------
(* String helpers: String.prototype.toLowerCase, trim, includes *)

toLowerChar(c) ==
    CASE c = "S" -> "s"
      [] c = "R" -> "r"
      [] OTHER -> c

toLowerCase(s) == [i \in 1..Len(s) |-> toLowerChar(s[i])]

RECURSIVE trimStart(_)
trimStart(s) ==
    IF s # <<>> /\ Head(s) = " " THEN trimStart(Tail(s)) ELSE s

RECURSIVE trimEnd(_)
trimEnd(s) ==
    IF s # <<>> /\ s[Len(s)] = " " THEN trimEnd(SubSeq(s, 1, Len(s) - 1)) ELSE s

trim(s) == trimEnd(trimStart(s))

includes(hay, needle) ==
    \E i \in 0..(Len(hay) - Len(needle)) :
        SubSeq(hay, i + 1, i + Len(needle)) = needle

\* ids of a set in ascending order (index order by _creationTime)
RECURSIVE ascending(_)
ascending(S) ==
    IF S = {} THEN <<>>
    ELSE LET m == CHOOSE x \in S : \A y \in S : x <= y
         IN <<m>> \o ascending(S \ {m})

reverse(s) == [i \in 1..Len(s) |-> s[Len(s) + 1 - i]]

SeqRange(s) == {s[i] : i \in 1..Len(s)}

----------------------------------------------------------------------------
(* The database as the handlers see it *)

\* ctx.db.get(id) is null
missing(id) == id \notin DOMAIN recipes

\* a recipes document as returned to a client
doc(id) ==
    [_id |-> id,
     userId |-> recipes[id].userId,
     title |-> recipes[id].title,
     slug |-> recipes[id].slug,
     isPublic |-> recipes[id].isPublic,
     imageStorageId |-> recipes[id].imageStorageId]

\* .withIndex("by_recipe", q => q.eq("recipeId", id)).collect()
byRecipe(table, id) == SelectSeq(table, LAMBDA row : row.recipeId = id)

withoutRecipeKept(table, id) == table

\* the rows left after deleting every row of recipe id
withoutRecipe(table, id) == SelectSeq(table, LAMBDA row : row.recipeId # id)

\* .withIndex("by_slug", q => q.eq("slug", slug)).first(): the _id or NoId
bySlugFirst(slug) ==
    LET hits == {id \in DOMAIN recipes : recipes[id].slug = slug}
    IN IF hits = {} THEN NoId ELSE CHOOSE x \in hits : \A y \in hits : x <= y

\* `imageStorageId ? await ctx.storage.getUrl(imageStorageId) : undefined`
imageUrlOf(id) ==
    LET getUrl(sid) == IF sid \in storage THEN sid ELSE Undefined
    IN IF recipes[id].imageStorageId # Undefined
       THEN getUrl(recipes[id].imageStorageId)
       ELSE Undefined

ingredientRows(id, names) ==
    [i \in 1..Len(names) |->
        [recipeId |-> id, name |-> names[i], amount |-> <<>>, order |-> i - 1]]

stepRows(id, steps) ==
    [i \in 1..Len(steps) |->
        [recipeId |-> id, type |-> "cooking", stepNumber |-> i,
         instruction |-> steps[i], order |-> i - 1]]

----------------------------------------------------------------------------
(* Outcomes *)

\* `deleted` counts the child rows a mutation deleted
Threw(op, caller, id, msg) ==
    [op |-> op, caller |-> caller, id |-> id, kind |-> "error",
     value |-> NoId, msg |-> <<msg>>, deleted |-> 0]

\* an error whose message is a template with the day number filled in
ThrewForDay(op, caller, id, msg, day) ==
    [op |-> op, caller |-> caller, id |-> id, kind |-> "error",
     value |-> NoId, msg |-> <<msg, day>>, deleted |-> 0]

Returned(op, caller, id, kind, value) ==
    [op |-> op, caller |-> caller, id |-> id, kind |-> kind,
     value |-> value, msg |-> <<>>, deleted |-> 0]

NotAuthenticated == "Not authenticated"

----------------------------------------------------------------------------
(* Optional array arguments: v.optional(v.array(v.string())) *)

Omitted == <<>>
Given(x) == <<x>>

\* `args.xs && args.xs.length > 0 ? args.xs : nothing`
rowsToInsert(arg) == IF Len(arg) = 1 /\ Len(arg[1]) > 0 THEN arg[1] ELSE <<>>

----------------------------------------------------------------------------
(* convex/recipes.ts: queries *)

\* recipes.list: the caller's recipes, newest first
list(u) ==
    /\ result' =
         LET own == {id \in DOMAIN recipes : recipes[id].userId = u}
             listValue == [i \in 1..Cardinality(own) |->
                              doc(reverse(ascending(own))[i])]
         IN IF u = Anon
            THEN Returned("recipes.list", u, NoId, "list", <<>>)
            ELSE Returned("recipes.list", u, NoId, "list", listValue)
    /\ UNCHANGED <<dbVars, ai, gp, form, page>>

getByIdHiddenNoOwnerCheck(userId, id) == missing(id)

\* recipes.getById: `!recipe || recipe.userId !== userId`
getByIdHidden(userId, id) == missing(id) \/ recipes[id].userId # userId

recipeWithChildren(id) ==
    [recipe |-> doc(id),
     ingredients |-> byRecipe(ingredients, id),
     steps |-> byRecipe(recipeSteps, id),
     imageUrl |-> imageUrlOf(id)]

getByIdResult(u, id) ==
    IF u = Anon \/ getByIdHidden(u, id)
    THEN Returned("recipes.getById", u, id, "null", NoId)
    ELSE Returned("recipes.getById", u, id, "record", recipeWithChildren(id))

getById(u, id) ==
    /\ result' = getByIdResult(u, id)
    /\ UNCHANGED <<dbVars, ai, gp, form, page>>

checkSlugExistsValueNoExclude(slug, excludeRecipeId) == bySlugFirst(slug) # NoId

\* recipes.checkSlugExists
checkSlugExistsValue(slug, excludeRecipeId) ==
    LET existing == bySlugFirst(slug)
    IN IF existing = NoId THEN FALSE
       ELSE IF excludeRecipeId # NoId /\ existing = excludeRecipeId THEN FALSE
       ELSE TRUE

checkSlugExists(u, slug, excludeRecipeId) ==
    /\ result' = Returned("recipes.checkSlugExists", u, excludeRecipeId, "bool",
                          checkSlugExistsValue(slug, excludeRecipeId))
    /\ UNCHANGED <<dbVars, ai, gp, form, page>>

\* recipes.getBySlug: `!recipe || !recipe.isPublic`
getBySlug(u, slug) ==
    /\ result' = IF bySlugFirst(slug) = NoId \/ ~recipes[bySlugFirst(slug)].isPublic
                 THEN Returned("recipes.getBySlug", u, NoId, "null", NoId)
                 ELSE Returned("recipes.getBySlug", u, bySlugFirst(slug), "record",
                               recipeWithChildren(bySlugFirst(slug)))
    /\ UNCHANGED <<dbVars, ai, gp, form, page>>

\* recipes.search: the caller's own recipes, then the public recipes of other
\* users, filtered by title (description and cuisine are not part of the
\* model) and cut to the limit
searchValue(userId, searchQuery, limit) ==
    LET searchPublic ==
            {id \in DOMAIN recipes :
                recipes[id].isPublic /\ recipes[id].userId # userId}
        searchMatches(id, query) ==
            query = NoString \/ trim(query) = <<>>
              \/ includes(toLowerCase(recipes[id].title), trim(toLowerCase(query)))
        own == ascending({id \in DOMAIN recipes : recipes[id].userId = userId})
        pub == ascending(searchPublic \ SeqRange(own))
        hits == SelectSeq(own \o pub, LAMBDA id : searchMatches(id, searchQuery))
        lim == IF limit = 0 THEN 50 ELSE limit
        cut == SubSeq(hits, 1, IF lim < Len(hits) THEN lim ELSE Len(hits))
    IN [i \in 1..Len(cut) |->
           [recipe |-> doc(cut[i]), imageUrl |-> imageUrlOf(cut[i]),
            isOwnRecipe |-> recipes[cut[i]].userId = userId]]

search(u, searchQuery, limit) ==
    /\ result' = IF u = Anon
                 THEN Returned("recipes.search", u, NoId, "list", <<>>)
                 ELSE Returned("recipes.search", u, NoId, "list",
                               searchValue(u, searchQuery, limit))
    /\ UNCHANGED <<dbVars, ai, gp, form, page>>

----------------------------------------------------------------------------
(* convex/recipes.ts: mutations *)

\* the slug and isPublic that weeklyPlans.generatePlan passes to
\* recipes.create are stored on the new document
createSlug(slug) == slug
createIsPublic(isPublic) == isPublic

\* the inserts of recipes.create
createWrites(u, title, ings, steps, img, slug, isPublic) ==
    /\ recipes' = [id \in DOMAIN recipes \cup {nextRecipeId} |->
                     IF id = nextRecipeId
                     THEN [userId |-> u, title |-> title,
                           slug |-> createSlug(slug),
                           isPublic |-> createIsPublic(isPublic),
                           imageStorageId |-> img]
                     ELSE recipes[id]]
    /\ ingredients' = ingredients \o ingredientRows(nextRecipeId, rowsToInsert(ings))
    /\ recipeSteps' = recipeSteps \o stepRows(nextRecipeId, rowsToInsert(steps))
    /\ nextRecipeId' = nextRecipeId + 1
    /\ UNCHANGED <<storage, uploaded, weeklyPlans, nextPlanId>>

create(u, title, ings, steps, img, slug, isPublic) ==
    IF u = Anon
    THEN /\ result' = Threw("recipes.create", u, NoId, NotAuthenticated)
         /\ UNCHANGED <<dbVars, ai, gp, form, page>>
    ELSE /\ createWrites(u, title, ings, steps, img, slug, isPublic)
         /\ result' = Returned("recipes.create", u, nextRecipeId, "id", nextRecipeId)
         /\ UNCHANGED <<ai, gp, form, page>>

updateDeniedNoOwnerCheck(userId, id) == missing(id)

\* recipes.update: `!recipe || recipe.userId !== userId`
updateDenied(userId, id) == missing(id) \/ recipes[id].userId # userId

\* what update returns or throws
updateResult(u, id) ==
    IF u = Anon THEN Threw("recipes.update", u, id, NotAuthenticated)
    ELSE IF updateDenied(u, id)
    THEN Threw("recipes.update", u, id,
               "Recipe not found or you don't have permission to edit it")
    ELSE [Returned("recipes.update", u, id, "id", id) EXCEPT
            !.deleted = Len(byRecipe(ingredients, id)) + Len(byRecipe(recipeSteps, id))]

shouldDeleteOldImageOnRemoveOnly(id, img, removeImage) ==
    recipes[id].imageStorageId # Undefined /\ removeImage

\* `recipe.imageStorageId` and shouldDeleteOldImage of update
shouldDeleteOldImage(id, img, removeImage) ==
    /\ recipes[id].imageStorageId # Undefined
    /\ \/ removeImage
       \/ (img # Undefined /\ img # recipes[id].imageStorageId)

update(u, id, title, ings, steps, img, removeImage) ==
    LET \* updateData.imageStorageId
        updatedImage ==
            IF removeImage THEN Undefined
            ELSE IF img # Undefined THEN img
            ELSE recipes[id].imageStorageId
    IN
    IF updateResult(u, id).kind = "error"
    THEN /\ result' = updateResult(u, id)
         /\ UNCHANGED <<dbVars, ai, gp, form, page>>
    ELSE /\ storage' = IF shouldDeleteOldImage(id, img, removeImage)
                       THEN storage \ {recipes[id].imageStorageId}
                       ELSE storage
         /\ recipes' = [recipes EXCEPT ![id].title = title,
                           ![id].imageStorageId = updatedImage]
         /\ ingredients' = withoutRecipe(ingredients, id)
                             \o ingredientRows(id, rowsToInsert(ings))
         /\ recipeSteps' = withoutRecipe(recipeSteps, id)
                             \o stepRows(id, rowsToInsert(steps))
         /\ result' = updateResult(u, id)
         /\ UNCHANGED <<uploaded, weeklyPlans, nextRecipeId, nextPlanId, ai, gp,
                        form, page>>

removeIngredientsSkipped(id) == ingredients

\* the ingredients table after remove's delete loop
removeIngredients(id) == withoutRecipe(ingredients, id)

\* what remove returns or throws
removeResult(u, id) ==
    IF u = Anon THEN Threw("recipes.remove", u, id, NotAuthenticated)
    ELSE IF missing(id) \/ recipes[id].userId # u
    THEN Threw("recipes.remove", u, id,
               "Recipe not found or you don't have permission to delete it")
    ELSE [Returned("recipes.remove", u, id, "id", id) EXCEPT
            !.deleted = Len(byRecipe(ingredients, id)) + Len(byRecipe(recipeSteps, id))]

remove(u, id) ==
    IF removeResult(u, id).kind = "error"
    THEN /\ result' = removeResult(u, id)
         /\ UNCHANGED <<dbVars, ai, gp, form, page>>
    ELSE /\ storage' = IF recipes[id].imageStorageId # Undefined
                       THEN storage \ {recipes[id].imageStorageId}
                       ELSE storage
         /\ ingredients' = removeIngredients(id)
         /\ recipeSteps' = withoutRecipe(recipeSteps, id)
         /\ recipes' = [r \in DOMAIN recipes \ {id} |-> recipes[r]]
         /\ result' = removeResult(u, id)
         /\ UNCHANGED <<uploaded, weeklyPlans, nextRecipeId, nextPlanId, ai, gp,
                        form, page>>

\* what shareRecipe returns or throws: `!recipe || recipe.userId !== userId`,
\* then `existing && existing._id !== args.id`
shareRecipeResult(u, id, slug) ==
    IF u = Anon THEN Threw("recipes.shareRecipe", u, id, NotAuthenticated)
    ELSE IF missing(id) \/ recipes[id].userId # u
    THEN Threw("recipes.shareRecipe", u, id,
               "Recipe not found or you don't have permission to share it")
    ELSE IF bySlugFirst(slug) # NoId /\ bySlugFirst(slug) # id
    THEN Threw("recipes.shareRecipe", u, id,
               "A recipe with this slug already exists. Please choose a different name.")
    ELSE Returned("recipes.shareRecipe", u, id, "id", id)

shareRecipe(u, id, slug) ==
    IF shareRecipeResult(u, id, slug).kind = "error"
    THEN /\ result' = shareRecipeResult(u, id, slug)
         /\ UNCHANGED <<dbVars, ai, gp, form, page>>
    ELSE /\ recipes' = [recipes EXCEPT ![id].slug = slug, ![id].isPublic = TRUE]
         /\ result' = shareRecipeResult(u, id, slug)
         /\ UNCHANGED <<ingredients, recipeSteps, storage, uploaded, weeklyPlans,
                        nextRecipeId, nextPlanId, ai, gp, form, page>>

\* recipes.generateUploadUrl followed by the client's POST of the file to
\* the issued URL: a new file appears in storage
uploadImage(u, sid) ==
    IF u = Anon
    THEN /\ result' = Threw("recipes.generateUploadUrl", u, NoId, NotAuthenticated)
         /\ UNCHANGED <<dbVars, ai, gp, form, page>>
    ELSE /\ sid \notin uploaded
         /\ storage' = storage \cup {sid}
         /\ uploaded' = uploaded \cup {sid}
         /\ result' = Returned("recipes.generateUploadUrl", u, NoId, "storageId", sid)
         /\ UNCHANGED <<recipes, ingredients, recipeSteps, weeklyPlans,
                        nextRecipeId, nextPlanId, ai, gp, form, page>>

\* recipes.deleteImage: ctx.storage.delete rejects for a file that is gone
deleteImage(u, sid) ==
    IF u = Anon
    THEN /\ result' = Threw("recipes.deleteImage", u, NoId, NotAuthenticated)
         /\ UNCHANGED <<dbVars, ai, gp, form, page>>
    ELSE IF sid \notin storage
    THEN /\ result' = Threw("recipes.deleteImage", u, NoId, "storage delete failed")
         /\ UNCHANGED <<dbVars, ai, gp, form, page>>
    ELSE /\ storage' = storage \ {sid}
         /\ result' = Returned("recipes.deleteImage", u, NoId, "void", NoId)
         /\ UNCHANGED <<recipes, ingredients, recipeSteps, uploaded, weeklyPlans,
                        nextRecipeId, nextPlanId, ai, gp, form, page>>

----------------------------------------------------------------------------
(* convex/weeklyPlans.ts: the weeklyPlans table *)

planMissing(id) == id \notin DOMAIN weeklyPlans

byUserAndWeekFirstNone(userId, weekStartDate) == NoId

\* .withIndex("by_user_and_week", ...).first(): the _id or NoId
byUserAndWeekFirst(userId, weekStartDate) ==
    LET hits == {id \in DOMAIN weeklyPlans :
                    /\ weeklyPlans[id].userId = userId
                    /\ weeklyPlans[id].weekStartDate = weekStartDate}
    IN IF hits = {} THEN NoId ELSE CHOOSE x \in hits : \A y \in hits : x <= y

\* Array.from({ length: 7 }, (_, i) => ({ dayOfWeek: i, recipeId: undefined }))
emptyDays == [i \in 1..7 |-> [dayOfWeek |-> i - 1, recipeId |-> NoRecipe]]

firstRefusedDayNone(userId, days, i) == 0

\* the access loop of updateWeek: index of the first day that is refused, 0
\* when every day passes
RECURSIVE firstRefusedDay(_, _, _)
firstRefusedDay(userId, days, i) ==
    IF i > Len(days) THEN 0
    ELSE IF days[i].recipeId # NoRecipe
            /\ (missing(days[i].recipeId)
                \/ (recipes[days[i].recipeId].userId # userId
                    /\ ~recipes[days[i].recipeId].isPublic))
    THEN i
    ELSE firstRefusedDay(userId, days, i + 1)

\* what updateWeek returns or throws
updateWeekResult(u, weekStartDate, days) ==
    IF u = Anon
    THEN Threw("weeklyPlans.updateWeek", u, NoId, NotAuthenticated)
    ELSE LET bad == firstRefusedDay(u, days, 1)
             existingPlan == byUserAndWeekFirst(u, weekStartDate)
         IN IF bad # 0
            THEN IF missing(days[bad].recipeId)
                 THEN ThrewForDay("weeklyPlans.updateWeek", u, days[bad].recipeId,
                                  "Recipe not found for day", days[bad].dayOfWeek)
                 ELSE ThrewForDay("weeklyPlans.updateWeek", u, days[bad].recipeId,
                                  "You don't have access to recipe for day",
                                  days[bad].dayOfWeek)
            ELSE IF existingPlan # NoId
            THEN Returned("weeklyPlans.updateWeek", u, NoId, "id", existingPlan)
            ELSE Returned("weeklyPlans.updateWeek", u, NoId, "id", nextPlanId)

\* what updateWeek writes: a patch of the existing plan or an insert
updateWeekWrites(u, weekStartDate, days) ==
    LET existingPlan == byUserAndWeekFirst(u, weekStartDate)
    IN IF updateWeekResult(u, weekStartDate, days).kind = "error"
       THEN UNCHANGED dbVars
       ELSE IF existingPlan # NoId
       THEN /\ weeklyPlans' = [weeklyPlans EXCEPT ![existingPlan].days = days]
            /\ UNCHANGED <<recipes, ingredients, recipeSteps, storage, uploaded,
                           nextRecipeId, nextPlanId>>
       ELSE /\ weeklyPlans' = [id \in DOMAIN weeklyPlans \cup {nextPlanId} |->
                                 IF id = nextPlanId
                                 THEN [userId |-> u,
                                       weekStartDate |-> weekStartDate,
                                       days |-> days]
                                 ELSE weeklyPlans[id]]
            /\ nextPlanId' = nextPlanId + 1
            /\ UNCHANGED <<recipes, ingredients, recipeSteps, storage, uploaded,
                           nextRecipeId>>

updateWeek(u, weekStartDate, days) ==
    /\ result' = updateWeekResult(u, weekStartDate, days)
    /\ updateWeekWrites(u, weekStartDate, days)
    /\ UNCHANGED <<ai, gp, form, page>>

removeRecipeFromDay(u, weekStartDate, dayOfWeek) ==
    IF u = Anon
    THEN /\ result' = Threw("weeklyPlans.removeRecipeFromDay", u, NoId, NotAuthenticated)
         /\ UNCHANGED <<dbVars, ai, gp, form, page>>
    ELSE LET plan == byUserAndWeekFirst(u, weekStartDate)
         IN IF plan = NoId
            THEN /\ result' = Threw("weeklyPlans.removeRecipeFromDay", u, NoId,
                                    "Weekly plan not found")
                 /\ UNCHANGED <<dbVars, ai, gp, form, page>>
            ELSE /\ weeklyPlans' =
                      [weeklyPlans EXCEPT ![plan].days =
                          [i \in 1..Len(@) |->
                              IF @[i].dayOfWeek = dayOfWeek
                              THEN [dayOfWeek |-> @[i].dayOfWeek, recipeId |-> NoRecipe]
                              ELSE @[i]]]
                 /\ result' = Returned("weeklyPlans.removeRecipeFromDay", u, NoId, "id", plan)
                 /\ UNCHANGED <<recipes, ingredients, recipeSteps, storage, uploaded,
                                nextRecipeId, nextPlanId, ai, gp, form, page>>

\* weeklyPlans.remove
removePlanResult(u, id) ==
    IF u = Anon THEN Threw("weeklyPlans.remove", u, id, NotAuthenticated)
    ELSE IF planMissing(id)
    THEN Threw("weeklyPlans.remove", u, id, "Weekly plan not found")
    ELSE IF weeklyPlans[id].userId # u
    THEN Threw("weeklyPlans.remove", u, id,
               "You don't have permission to delete this plan")
    ELSE Returned("weeklyPlans.remove", u, id, "id", id)

removePlan(u, id) ==
    IF removePlanResult(u, id).kind = "error"
    THEN /\ result' = removePlanResult(u, id)
         /\ UNCHANGED <<dbVars, ai, gp, form, page>>
    ELSE /\ weeklyPlans' = [p \in DOMAIN weeklyPlans \ {id} |-> weeklyPlans[p]]
         /\ result' = removePlanResult(u, id)
         /\ UNCHANGED <<recipes, ingredients, recipeSteps, storage, uploaded,
                        nextRecipeId, nextPlanId, ai, gp, form, page>>

----------------------------------------------------------------------------
(* convex/weeklyPlans.ts: queries *)

\* a plan with daysWithRecipes: each day with the recipe it references, if
\* that exists
planWithRecipes(userId, id) ==
    LET days == weeklyPlans[id].days
        daysWithRecipes ==
            [i \in 1..Len(days) |->
                IF days[i].recipeId = NoRecipe \/ missing(days[i].recipeId)
                THEN [dayOfWeek |-> days[i].dayOfWeek, recipeId |-> days[i].recipeId,
                      hasRecipe |-> FALSE]
                ELSE [dayOfWeek |-> days[i].dayOfWeek, recipeId |-> days[i].recipeId,
                      hasRecipe |-> TRUE,
                      recipe |-> doc(days[i].recipeId),
                      imageUrl |-> imageUrlOf(days[i].recipeId),
                      isOwnRecipe |-> recipes[days[i].recipeId].userId = userId]]
    IN [_id |-> id, userId |-> weeklyPlans[id].userId,
        weekStartDate |-> weeklyPlans[id].weekStartDate,
        days |-> daysWithRecipes]

\* weeklyPlans.getWeek; getCurrentWeek is getWeek of getWeekStartDate(now)
getWeek(op, u, weekStartDate) ==
    /\ result' =
         IF u = Anon THEN Threw(op, u, NoId, NotAuthenticated)
         ELSE IF byUserAndWeekFirst(u, weekStartDate) = NoId
         THEN Returned(op, u, NoId, "record",
                       [_id |-> NoId, userId |-> u, weekStartDate |-> weekStartDate,
                        days |-> emptyDays])
         ELSE Returned(op, u, NoId, "record",
                       planWithRecipes(u, byUserAndWeekFirst(u, weekStartDate)))
    /\ UNCHANGED <<dbVars, ai, gp, form, page>>

\* weeklyPlans.list
planList(u) ==
    /\ result' =
         LET own == reverse(ascending({id \in DOMAIN weeklyPlans :
                                         weeklyPlans[id].userId = u}))
             planListValue ==
                 [i \in 1..Len(own) |->
                    [_id |-> own[i], days |-> weeklyPlans[own[i]].days,
                     recipeCount |->
                        Cardinality({d \in 1..Len(weeklyPlans[own[i]].days) :
                            weeklyPlans[own[i]].days[d].recipeId # NoRecipe})]]
         IN IF u = Anon
            THEN Threw("weeklyPlans.list", u, NoId, NotAuthenticated)
            ELSE Returned("weeklyPlans.list", u, NoId, "list", planListValue)
    /\ UNCHANGED <<dbVars, ai, gp, form, page>>

\* weeklyPlans.getById
planGetByIdResult(u, id) ==
    IF u = Anon THEN Threw("weeklyPlans.getById", u, id, NotAuthenticated)
    ELSE IF planMissing(id) THEN Returned("weeklyPlans.getById", u, id, "null", NoId)
    ELSE IF weeklyPlans[id].userId # u
    THEN Returned("weeklyPlans.getById", u, id, "null", NoId)
    ELSE Returned("weeklyPlans.getById", u, id, "record", planWithRecipes(u, id))

planGetById(u, id) ==
    /\ result' = planGetByIdResult(u, id)
    /\ UNCHANGED <<dbVars, ai, gp, form, page>>

----------------------------------------------------------------------------
(* convex/weeklyPlans.ts: generateShoppingList *)

\* name.charAt(0).toUpperCase() + name.slice(1)
capitalize(name) ==
    LET toUpperChar(c) ==
            CASE c = "s" -> "S"
              [] c = "r" -> "R"
              [] OTHER -> c
    IN IF name = <<>> THEN <<>> ELSE <<toUpperChar(name[1])>> \o Tail(name)

\* Array.prototype.join
RECURSIVE join(_, _)
join(strs, sep) ==
    IF strs = <<>> THEN <<>>
    ELSE IF Len(strs) = 1 THEN strs[1]
    ELSE strs[1] \o sep \o join(Tail(strs), sep)

\* collation rank of a character: space, then letters without regard to case
charRank(c) ==
    CASE c = " " -> 0
      [] toLowerChar(c) = "a" -> 1
      [] toLowerChar(c) = "c" -> 3
      [] toLowerChar(c) = "e" -> 5
      [] toLowerChar(c) = "i" -> 9
      [] toLowerChar(c) = "l" -> 12
      [] toLowerChar(c) = "r" -> 18
      [] toLowerChar(c) = "s" -> 19
      [] toLowerChar(c) = "t" -> 20
      [] OTHER -> 27

\* a.localeCompare(b) < 0
RECURSIVE localeBefore(_, _)
localeBefore(a, b) ==
    IF b = <<>> THEN FALSE
    ELSE IF a = <<>> THEN TRUE
    ELSE IF charRank(a[1]) # charRank(b[1]) THEN charRank(a[1]) < charRank(b[1])
    ELSE localeBefore(Tail(a), Tail(b))

\* plan.days.filter(day => day.recipeId !== undefined).map(day => day.recipeId)
planRecipeIds(days) ==
    LET assigned == SelectSeq(days, LAMBDA day : day.recipeId # NoRecipe)
    IN [i \in 1..Len(assigned) |-> assigned[i].recipeId]

\* the ingredients of each recipe that exists, as pushed to allIngredients
RECURSIVE allIngredients(_)
allIngredients(recipeIds) ==
    LET recipeIngredients(recipeId) ==
            IF missing(recipeId) THEN <<>>
            ELSE LET rows == byRecipe(ingredients, recipeId)
                 IN [i \in 1..Len(rows) |->
                       [name |-> rows[i].name, amount |-> rows[i].amount,
                        recipeTitle |-> recipes[recipeId].title]]
    IN IF recipeIds = <<>> THEN <<>>
       ELSE recipeIngredients(Head(recipeIds)) \o allIngredients(Tail(recipeIds))

normalizedNameCased(name) == trim(name)

normalizedName(name) == trim(toLowerCase(name))

\* one iteration of the aggregation loop over the insertion-ordered Map
mergeIngredient(map, ingredient) ==
    LET key == normalizedName(ingredient.name)
        \* position of key in the Map, 0 when absent
        at == IF \E i \in 1..Len(map) : map[i].key = key
              THEN CHOOSE i \in 1..Len(map) : map[i].key = key
              ELSE 0
        \* `!existing.recipes.includes(ingredient.recipeTitle)`
        recipeNotListed(listed, ing) == ing.recipeTitle \notin SeqRange(listed)
    IN IF at # 0
       THEN [map EXCEPT
               ![at].amounts = IF ingredient.amount # <<>>
                               THEN Append(@, ingredient.amount) ELSE @,
               ![at].recipes = IF recipeNotListed(@, ingredient)
                               THEN Append(@, ingredient.recipeTitle) ELSE @]
       ELSE Append(map, [key |-> key,
                         amounts |-> IF ingredient.amount # <<>>
                                     THEN <<ingredient.amount>> ELSE <<>>,
                         recipes |-> <<ingredient.recipeTitle>>])

RECURSIVE ingredientMap(_, _)
ingredientMap(allIngs, map) ==
    IF allIngs = <<>> THEN map
    ELSE ingredientMap(Tail(allIngs), mergeIngredient(map, Head(allIngs)))

insertItemAtEnd(sorted, item) == Append(sorted, item)

\* items.sort((a, b) => a.name.localeCompare(b.name)): stable insertion sort
RECURSIVE insertItem(_, _)
insertItem(sorted, item) ==
    IF sorted = <<>> THEN <<item>>
    ELSE IF localeBefore(item.name, Head(sorted).name)
    THEN <<item>> \o sorted
    ELSE <<Head(sorted)>> \o insertItem(Tail(sorted), item)

RECURSIVE sortItems(_, _)
sortItems(items, sorted) ==
    IF items = <<>> THEN sorted
    ELSE sortItems(Tail(items), insertItem(sorted, Head(items)))

shoppingListValue(planId) ==
    LET recipeIds == planRecipeIds(weeklyPlans[planId].days)
        map == ingredientMap(allIngredients(recipeIds), <<>>)
        shoppingItem(entry) ==
            [name |-> capitalize(entry.key),
             amount |-> join(entry.amounts, <<" ", "+", " ">>),
             recipes |-> entry.recipes,
             recipeCount |-> Len(entry.recipes)]
        items == sortItems([i \in 1..Len(map) |-> shoppingItem(map[i])], <<>>)
    IN IF recipeIds = <<>>
       THEN [items |-> <<>>, totalItems |-> 0, planId |-> NoId]
       ELSE [items |-> items, totalItems |-> Len(items), planId |-> planId]

generateShoppingListResult(u, planId) ==
    IF u = Anon
    THEN Threw("weeklyPlans.generateShoppingList", u, planId, NotAuthenticated)
    ELSE IF planMissing(planId) \/ weeklyPlans[planId].userId # u
    THEN Returned("weeklyPlans.generateShoppingList", u, planId, "null", NoId)
    ELSE Returned("weeklyPlans.generateShoppingList", u, planId, "record",
                  shoppingListValue(planId))

generateShoppingList(u, planId) ==
    /\ result' = generateShoppingListResult(u, planId)
    /\ UNCHANGED <<dbVars, ai, gp, form, page>>

----------------------------------------------------------------------------
(* convex/ai.ts: callOpenAI *)

MAX_RETRIES == 3
RETRY_DELAY == 1000

NoError == <<>>                     \* lastError is null

ContentA == <<"{", "a", "}">>
ContentB == <<"{", "b", "}">>

\* what one fetch can bring back; status 0 stands for a rejected fetch
Responses ==
    {[status |-> 200, content |-> c] : c \in {<<>>, ContentA, ContentB}}
      \cup {[status |-> st, content |-> <<>>] : st \in {0, 429, 500}}

\* the Error built for a failed attempt
errorOf(resp) ==
    IF resp.status = 0 THEN <<"fetch failed">>
    ELSE IF resp.status # 200 THEN <<"OpenAI API error:", resp.status>>
    ELSE <<"No content in OpenAI response">>

loopContinuesOneMore(attempt, maxRetries) == attempt <= maxRetries

\* `attempt < maxRetries` of the for loop
loopContinues(attempt, maxRetries) == attempt < maxRetries

retriesRateLimitAlways(status, attempt, maxRetries) == status = 429

\* `response.status === 429 && attempt < maxRetries - 1`
retriesRateLimit(status, attempt, maxRetries) ==
    status = 429 /\ attempt < maxRetries - 1

rateLimitDelayLinear(attempt) == RETRY_DELAY * (attempt + 1)

\* the wait after a 429: `RETRY_DELAY * (attempt + 1) * 2`
rateLimitDelay(attempt) == RETRY_DELAY * (attempt + 1) * 2

\* the wait in the catch block: `RETRY_DELAY * (attempt + 1)`
retryDelay(attempt) == RETRY_DELAY * (attempt + 1)

\* the message of the final throw: `${lastError?.message}`
exhaustedMessage(maxRetries, lastError) ==
    [attempts |-> maxRetries,
     last |-> IF lastError = NoError THEN <<"undefined">> ELSE lastError]

aiIdle ==
    [pc |-> "idle", attempt |-> 0, log |-> <<>>, delays |-> <<>>,
     lastError |-> NoError, value |-> <<>>,
     msg |-> [attempts |-> 0, last |-> <<>>]]

\* entry of callOpenAI: `let lastError = null`, attempt = 0
callOpenAI ==
    /\ ai.pc \in {"idle", "returned", "threw"}
    /\ ai' = [aiIdle EXCEPT !.pc = "fetch"]
    /\ UNCHANGED <<dbVars, result, gp, form, page>>

\* the state callOpenAI is in after iteration `attempt` ended without a return
afterFailedAttempt(lastError, delays) ==
    IF loopContinues(ai.attempt + 1, MAX_RETRIES)
    THEN [ai EXCEPT !.attempt = ai.attempt + 1, !.lastError = lastError,
                    !.delays = delays]
    ELSE [ai EXCEPT !.pc = "threw", !.attempt = ai.attempt + 1,
                    !.lastError = lastError, !.delays = delays,
                    !.msg = exhaustedMessage(MAX_RETRIES, lastError)]

\* one iteration of the retry loop: the request, and what follows from the
\* response
callOpenAIAttempt(resp) ==
    /\ ai.pc = "fetch"
    /\ ai' =
         LET seen == [ai EXCEPT !.log = Append(ai.log, resp)]
         IN IF resp.status = 200 /\ resp.content # <<>>
            THEN [seen EXCEPT !.pc = "returned", !.value = resp.content]
            ELSE IF resp.status \notin {0, 200}
                    /\ retriesRateLimit(resp.status, ai.attempt, MAX_RETRIES)
            THEN [afterFailedAttempt(ai.lastError,
                      Append(ai.delays, rateLimitDelay(ai.attempt)))
                    EXCEPT !.log = seen.log]
            ELSE [afterFailedAttempt(errorOf(resp),
                      IF ai.attempt < MAX_RETRIES - 1
                      THEN Append(ai.delays, retryDelay(ai.attempt))
                      ELSE ai.delays)
                    EXCEPT !.log = seen.log]
    /\ UNCHANGED <<dbVars, result, gp, form, page>>

----------------------------------------------------------------------------
(* convex/weeklyPlans.ts: slugify, generateUniqueSlugInAction, generatePlan *)

PlanLength == 7

\* .replace(/\s+/g, '-')
RECURSIVE spacesToHyphen(_)
spacesToHyphen(s) ==
    IF s = <<>> THEN <<>>
    ELSE IF Head(s) = " "
    THEN <<"-">> \o spacesToHyphen(trimStart(s))
    ELSE <<Head(s)>> \o spacesToHyphen(Tail(s))

\* .replace(/\-\-+/g, '-')
RECURSIVE collapseHyphens(_)
collapseHyphens(s) ==
    IF Len(s) < 2 THEN s
    ELSE IF s[1] = "-" /\ s[2] = "-" THEN collapseHyphens(Tail(s))
    ELSE <<s[1]>> \o collapseHyphens(Tail(s))

RECURSIVE stripHyphensStart(_)
stripHyphensStart(s) ==
    IF s # <<>> /\ Head(s) = "-" THEN stripHyphensStart(Tail(s)) ELSE s

RECURSIVE stripHyphensEnd(_)
stripHyphensEnd(s) ==
    IF s # <<>> /\ s[Len(s)] = "-"
    THEN stripHyphensEnd(SubSeq(s, 1, Len(s) - 1)) ELSE s

\* .replace(/[^\w\-]+/g, '') keeps word characters and hyphens
slugify(text) ==
    LET isWordChar(c) == c \notin {" ", "!", "-"}
    IN stripHyphensEnd(stripHyphensStart(collapseHyphens(
           SelectSeq(spacesToHyphen(trim(toLowerCase(text))),
                     LAMBDA c : isWordChar(c) \/ c = "-"))))

\* generateWeeklyPlan's checks on the parsed reply (convex/ai.ts)
validWeeklyPlan(reply) ==
    /\ Len(reply) = PlanLength
    /\ \A i \in 1..Len(reply) :
          ~ \/ reply[i].dayOfWeek < 0
            \/ reply[i].dayOfWeek > 6
            \/ reply[i].title \in {<<>>, NoString}
            \/ reply[i].ingredients = Omitted
            \/ reply[i].steps = Omitted

missingRequiredFieldsNoSteps(recipe) ==
    recipe.title \in {<<>>, NoString} \/ recipe.ingredients = Omitted

\* `!recipe.title || !recipe.ingredients || !recipe.steps` (convex/ai.ts)
missingRequiredFields(recipe) ==
    \/ recipe.title \in {<<>>, NoString}
    \/ recipe.ingredients = Omitted
    \/ recipe.steps = Omitted

\* the recipe object handed back to the caller
recipeData(reply) ==
    [title |-> reply.title, ingredients |-> reply.ingredients, steps |-> reply.steps]

\* generateRecipe from the return of callOpenAI on: parseAIResponse, which
\* throws for a reply that is not JSON, and the field check
generateRecipe(reply) ==
    /\ result' =
         IF ~reply.json
         THEN Threw("ai.generateRecipe", Anon, NoId, "Failed to parse AI response as JSON")
         ELSE IF missingRequiredFields(reply)
         THEN Threw("ai.generateRecipe", Anon, NoId, "AI response missing required fields")
         ELSE Returned("ai.generateRecipe", Anon, NoId, "record", recipeData(reply))
    /\ UNCHANGED <<dbVars, ai, gp, form, page>>

\* extractRecipeFromUrl: the fetch of the page, then as generateRecipe
extractRecipeFromUrl(fetched, reply) ==
    /\ result' =
         IF ~fetched
         THEN Threw("ai.extractRecipeFromUrl", Anon, NoId, "Failed to fetch webpage")
         ELSE IF ~reply.json
         THEN Threw("ai.extractRecipeFromUrl", Anon, NoId,
                    "Failed to parse AI response as JSON")
         ELSE IF missingRequiredFields(reply)
         THEN Threw("ai.extractRecipeFromUrl", Anon, NoId,
                    "Failed to extract complete recipe from webpage")
         ELSE Returned("ai.extractRecipeFromUrl", Anon, NoId, "record", recipeData(reply))
    /\ UNCHANGED <<dbVars, ai, gp, form, page>>

\* generateWeeklyPlan from the return of callOpenAI on
generateWeeklyPlan(reply) ==
    /\ result' =
         IF ~reply.json
         THEN Threw("ai.generateWeeklyPlan", Anon, NoId,
                    "Failed to parse AI response as JSON")
         ELSE IF Len(reply.recipes) # PlanLength
         THEN Threw("ai.generateWeeklyPlan", Anon, NoId,
                    "Weekly plan must contain exactly 7 recipes")
         ELSE IF ~validWeeklyPlan(reply.recipes)
         THEN Threw("ai.generateWeeklyPlan", Anon, NoId,
                    "Invalid recipe data in weekly plan")
         ELSE Returned("ai.generateWeeklyPlan", Anon, NoId, "record", reply.recipes)
    /\ UNCHANGED <<dbVars, ai, gp, form, page>>

\* Array.from({ length: 7 }, (_, i) => recipeIds.find(r => r.dayOfWeek === i))
generatedDays(recipeIds) ==
    [i \in 1..PlanLength |->
        [dayOfWeek |-> i - 1,
         recipeId |->
           IF \E k \in 1..Len(recipeIds) : recipeIds[k].dayOfWeek = i - 1
           THEN recipeIds[CHOOSE k \in 1..Len(recipeIds) :
                    /\ recipeIds[k].dayOfWeek = i - 1
                    /\ \A j \in 1..(k - 1) : recipeIds[j].dayOfWeek # i - 1].recipeId
           ELSE NoRecipe]]

gpIdle ==
    [pc |-> "idle", user |-> Anon, week |-> 0, plan |-> <<>>, i |-> 1,
     baseSlug |-> <<>>, slug |-> <<>>, counter |-> 1, recipeIds |-> <<>>,
     planId |-> NoId, msg |-> <<>>]

\* generatePlan up to the return of aiService.generateWeeklyPlan; reply is
\* the parsed AI reply, <<>> with aiFailed when callOpenAI or the parse threw
generatePlanStart(p, u, weekStartDate, reply, aiFailed) ==
    /\ gp[p].pc = "idle"
    /\ gp' = [gp EXCEPT ![p] =
         IF u = Anon
         THEN [gpIdle EXCEPT !.pc = "threw", !.msg = <<NotAuthenticated>>]
         ELSE IF aiFailed \/ ~validWeeklyPlan(reply)
         THEN [gpIdle EXCEPT !.pc = "threw", !.user = u, !.week = weekStartDate,
                             !.msg = <<"Failed to generate weekly plan:">>]
         ELSE [gpIdle EXCEPT !.pc = "slug", !.user = u, !.week = weekStartDate,
                             !.plan = reply,
                             !.baseSlug = slugify(reply[1].title),
                             !.slug = slugify(reply[1].title)]]
    /\ UNCHANGED <<dbVars, result, ai, form, page>>

\* one iteration of generateUniqueSlugInAction's loop: one checkSlugExists query
generatePlanCheckSlug(p) ==
    /\ gp[p].pc = "slug"
    /\ gp' = [gp EXCEPT ![p] =
         IF checkSlugExistsValue(gp[p].slug, NoId)
         THEN [@ EXCEPT !.slug = gp[p].baseSlug
                                   \o <<"-", ToString(gp[p].counter)>>,
                        !.counter = gp[p].counter + 1]
         ELSE [@ EXCEPT !.pc = "create"]]
    /\ UNCHANGED <<dbVars, result, ai, form, page>>

\* ctx.runMutation(createRecipeMutation, ...) and recipeIds.push
generatePlanCreate(p) ==
    /\ gp[p].pc = "create"
    /\ LET dayRecipe == gp[p].plan[gp[p].i]
           \* ingredients.map(ing => `${ing.amount} ${ing.name}`)
           ingredientStrings(ings) ==
               [i \in 1..Len(ings) |-> ings[i].amount \o <<" ">> \o ings[i].name]
       IN /\ createWrites(gp[p].user, dayRecipe.title,
                          Given(ingredientStrings(dayRecipe.ingredients[1])),
                          dayRecipe.steps, Undefined, gp[p].slug, TRUE)
          /\ gp' = [gp EXCEPT ![p] =
               LET pushed == Append(gp[p].recipeIds,
                                 [dayOfWeek |-> dayRecipe.dayOfWeek,
                                  recipeId |-> nextRecipeId])
               IN IF gp[p].i < Len(gp[p].plan)
                  THEN [@ EXCEPT !.pc = "slug", !.i = gp[p].i + 1,
                                 !.recipeIds = pushed,
                                 !.baseSlug = slugify(gp[p].plan[gp[p].i + 1].title),
                                 !.slug = slugify(gp[p].plan[gp[p].i + 1].title),
                                 !.counter = 1]
                  ELSE [@ EXCEPT !.pc = "plan", !.recipeIds = pushed]]
    /\ UNCHANGED <<result, ai, form, page>>

\* ctx.runMutation(updateWeekMutation, ...) and the return, or the catch
generatePlanUpdateWeek(p) ==
    /\ gp[p].pc = "plan"
    /\ LET days == generatedDays(gp[p].recipeIds)
           outcome == updateWeekResult(gp[p].user, gp[p].week, days)
       IN /\ updateWeekWrites(gp[p].user, gp[p].week, days)
          /\ gp' = [gp EXCEPT ![p] =
               IF outcome.kind = "error"
               THEN [@ EXCEPT !.pc = "threw",
                              !.msg = <<"Failed to generate weekly plan:">> \o outcome.msg]
               ELSE [@ EXCEPT !.pc = "done", !.planId = outcome.value]]
    /\ UNCHANGED <<result, ai, form, page>>

----------------------------------------------------------------------------
(* lib/image-utils.ts and components/recipe-form.tsx: the image of the form *)

MAX_FILE_SIZE == 10 * 1024 * 1024
ALLOWED_TYPES == {"image/jpeg", "image/jpg", "image/png", "image/webp"}

validateImageFileAnySize(file) == file.type \in ALLOWED_TYPES

\* validateImageFile(file).valid
validateImageFile(file) ==
    file.type \in ALLOWED_TYPES /\ ~(file.size > MAX_FILE_SIZE)

\* `last` is how the last processAndUploadImage ended
formIdle ==
    [pc |-> "idle", file |-> [type |-> "none", size |-> 0], compressed |-> FALSE,
     imageStorageId |-> Undefined, newlyUploadedStorageId |-> Undefined,
     last |-> "none"]

\* processAndUploadImage up to the return of processImageFile, which throws
\* for a file that is not valid and when compressImage throws
processAndUploadImage(file, compressed) ==
    /\ form.pc = "idle"
    /\ form' = IF validateImageFile(file) /\ compressed
               THEN [form EXCEPT !.pc = "generateUploadUrl", !.file = file,
                                 !.compressed = TRUE]
               ELSE [form EXCEPT !.file = file, !.compressed = FALSE,
                                 !.last = IF validateImageFile(file)
                                          THEN "compression failed"
                                          ELSE "validation failed"]
    /\ UNCHANGED <<dbVars, result, ai, gp, page>>

\* `await generateUploadUrl()`: the URL, or the rejection for a client whose
\* identity is gone, which the form catches
formGenerateUploadUrl(u) ==
    /\ form.pc = "generateUploadUrl"
    /\ form' = IF u # Anon THEN [form EXCEPT !.pc = "fetch"]
               ELSE [form EXCEPT !.pc = "idle", !.last = "no upload URL"]
    /\ result' = IF u # Anon
                 THEN Returned("recipes.generateUploadUrl", u, NoId, "url", NoId)
                 ELSE Threw("recipes.generateUploadUrl", u, NoId, NotAuthenticated)
    /\ UNCHANGED <<dbVars, ai, gp, page>>

\* the POST of the compressed file to the upload URL and what follows it:
\* the earlier unsaved upload is deleted and the form takes the new id
formUpload(sid, ok) ==
    /\ form.pc = "fetch"
    /\ sid \notin uploaded
    /\ IF ok
       THEN /\ uploaded' = uploaded \cup {sid}
            /\ storage' = (storage \cup {sid})
                             \ (IF form.newlyUploadedStorageId # Undefined
                                THEN {form.newlyUploadedStorageId} ELSE {})
            /\ form' = [form EXCEPT !.pc = "idle", !.imageStorageId = sid,
                                    !.newlyUploadedStorageId = sid,
                                    !.last = "uploaded"]
       ELSE /\ form' = [form EXCEPT !.pc = "idle", !.last = "upload failed"]
            /\ UNCHANGED <<storage, uploaded>>
    /\ UNCHANGED <<recipes, ingredients, recipeSteps, weeklyPlans, nextRecipeId,
                   nextPlanId, result, ai, gp, page>>

----------------------------------------------------------------------------
(* app/dashboard/weekly-plan/[id]/edit/page.tsx: the edit page of a plan *)

Tabs == {1, 2}

\* useState of `days`; `plan` is undefined until the query has answered.
\* `assigned` is the last (dayOfWeek, recipeId) the user picked
pageIdle ==
    [pc |-> "idle", plan |-> NoId, weekStartDate |-> 0, days |-> emptyDays,
     sent |-> <<>>, assigned |-> [dayOfWeek |-> 0, recipeId |-> NoRecipe]]

\* .sort((a, b) => a.dayOfWeek - b.dayOfWeek), a stable sort
sortByDayOfWeek(days) ==
    LET RECURSIVE from(_)
        from(S) ==
            IF S = {} THEN <<>>
            ELSE LET m == CHOOSE x \in S : \A y \in S : x <= y
                 IN SelectSeq(days, LAMBDA d : d.dayOfWeek = m) \o from(S \ {m})
    IN from({days[i].dayOfWeek : i \in 1..Len(days)})

\* the answer of useQuery(api.weeklyPlans.getById) reaches the tab and the
\* effect on `plan` runs: `if (plan) setDays(planDays)`
pagePlanLoaded(t, u, id) ==
    /\ page[t].pc = "idle"
    /\ page' = [page EXCEPT ![t] =
         IF planGetByIdResult(u, id).kind = "record"
         THEN LET plan == planGetByIdResult(u, id).value
              IN [@ EXCEPT !.plan = plan._id,
                           !.weekStartDate = plan.weekStartDate,
                           !.days = sortByDayOfWeek(
                               [i \in 1..Len(plan.days) |->
                                   [dayOfWeek |-> plan.days[i].dayOfWeek,
                                    recipeId |-> plan.days[i].recipeId]])]
         ELSE [@ EXCEPT !.plan = NoId]]
    /\ UNCHANGED <<dbVars, result, ai, gp, form>>

\* handleAssignRecipe up to the call of updateWeek: `if (!plan) return`,
\* updatedDays, completeDays through the Map, setDays
handleAssignRecipe(t, recipeId, dayOfWeek) ==
    /\ page[t].pc = "idle"
    /\ page[t].plan # NoId
    /\ LET days == page[t].days
           updatedDays ==
               sortByDayOfWeek(
                   [i \in 1..Len(days) |->
                       IF days[i].dayOfWeek = dayOfWeek
                       THEN [dayOfWeek |-> days[i].dayOfWeek, recipeId |-> recipeId]
                       ELSE days[i]])
           \* new Map(...): the last entry of a key stays
           daysMapGet(d) ==
               LET ks == {k \in 1..Len(updatedDays) : updatedDays[k].dayOfWeek = d}
               IN updatedDays[CHOOSE k \in ks : \A j \in ks : j <= k]
           completeDays ==
               [i \in 1..7 |->
                   IF \E k \in 1..Len(updatedDays) : updatedDays[k].dayOfWeek = i - 1
                   THEN daysMapGet(i - 1)
                   ELSE [dayOfWeek |-> i - 1, recipeId |-> NoRecipe]]
       IN page' = [page EXCEPT ![t] =
              [@ EXCEPT !.pc = "updateWeek", !.days = completeDays,
                        !.sent = completeDays,
                        !.assigned = [dayOfWeek |-> dayOfWeek,
                                      recipeId |-> recipeId]]]
    /\ UNCHANGED <<dbVars, result, ai, gp, form>>

\* the updateWeek mutation of the tab runs and its promise settles: the
\* success toast, or the catch
pageUpdateWeek(t, u) ==
    /\ page[t].pc = "updateWeek"
    /\ result' = updateWeekResult(u, page[t].weekStartDate, page[t].sent)
    /\ updateWeekWrites(u, page[t].weekStartDate, page[t].sent)
    /\ page' = [page EXCEPT ![t].pc =
         IF updateWeekResult(u, page[t].weekStartDate, page[t].sent).kind = "error"
         THEN "failed" ELSE "assigned"]
    /\ UNCHANGED <<ai, gp, form>>

----------------------------------------------------------------------------
(* Initial state: an empty deployment *)

Procs == {1, 2}

Init ==
    /\ recipes = <<>>
    /\ ingredients = <<>>
    /\ recipeSteps = <<>>
    /\ storage = {}
    /\ uploaded = {}
    /\ weeklyPlans = <<>>
    /\ nextRecipeId = 1
    /\ nextPlanId = 1
    /\ result = Returned("none", Anon, NoId, "none", NoId)
    /\ ai = aiIdle
    /\ gp = [p \in Procs |-> gpIdle]
    /\ form = formIdle
    /\ page = [t \in Tabs |-> pageIdle]

----------------------------------------------------------------------------
(* Spec: reading recipes.  Signed-in and anonymous clients create, retitle, *)
(* share and delete recipes and run the read queries.                        *)

RecipeIds == 1..MaxRecipes
Titles == {Soup, Stew}
SearchArgs == {NoString, <<"s", "o">>}

Next ==
    \/ \E u \in Callers, title \in Titles :
        /\ nextRecipeId <= MaxRecipes
        /\ create(u, title, Omitted, Omitted, Undefined, NoString, FALSE)
    \/ \E u \in Callers, id \in RecipeIds, title \in Titles :
        update(u, id, title, Omitted, Omitted, Undefined, FALSE)
    \/ \E u \in Callers, id \in RecipeIds : remove(u, id)
    \/ \E u \in Callers, id \in RecipeIds : shareRecipe(u, id, soup)
    \/ \E u \in Callers : list(u)
    \/ \E u \in Callers, id \in RecipeIds : getById(u, id)
    \/ \E u \in Callers : getBySlug(u, soup)
    \/ \E u \in Callers, q \in SearchArgs, limit \in {0, 1} : search(u, q, limit)
    \/ \E u \in Callers, id \in RecipeIds \cup {NoId} : checkSlugExists(u, soup, id)

Spec == Init /\ [][Next]_vars

----------------------------------------------------------------------------
(* SpecRows: writing recipes.  Clients upload images and create, edit,       *)
(* share and delete recipes with ingredients, steps and images.              *)

ContentArgs == {<<Omitted, Omitted>>, <<Given(<<Salt>>), Given(<<Boil>>)>>}
ImageArgs == uploaded \cup {Undefined}

NextRows ==
    \/ \E u \in Callers :
        /\ Cardinality(uploaded) < MaxUploads
        /\ uploadImage(u, Cardinality(uploaded) + 1)
    \/ \E u \in Callers, content \in ContentArgs, img \in ImageArgs :
        /\ nextRecipeId <= MaxRecipes
        /\ create(u, Soup, content[1], content[2], img, NoString, FALSE)
    \/ \E u \in Callers, id \in RecipeIds, content \in ContentArgs,
          img \in ImageArgs, removeImage \in BOOLEAN :
        update(u, id, Soup, content[1], content[2], img, removeImage)
    \/ \E u \in Callers, id \in RecipeIds : remove(u, id)
    \/ \E u \in Callers, id \in RecipeIds : shareRecipe(u, id, soup)
    \/ \E u \in Callers, sid \in uploaded : deleteImage(u, sid)

SpecRows == Init /\ [][NextRows]_vars

----------------------------------------------------------------------------
(* SpecEdit: editing a recipe.  One client creates recipes and replaces      *)
(* their ingredients and steps with lists that are omitted, empty, of one    *)
(* entry or of two.                                                          *)

Editor == "alice"
IngredientArgs == {Omitted, Given(<<>>), Given(<<Salt>>), Given(<<Rice, Salt>>)}
StepArgs == {Omitted, Given(<<>>), Given(<<Boil>>), Given(<<Stir, Boil>>)}

NextEdit ==
    \/ \E ings \in IngredientArgs, steps \in StepArgs :
        /\ nextRecipeId <= MaxRecipes
        /\ create(Editor, Soup, ings, steps, Undefined, NoString, FALSE)
    \/ \E id \in RecipeIds, ings \in IngredientArgs, steps \in StepArgs :
        update(Editor, id, Soup, ings, steps, Undefined, FALSE)
    \/ \E id \in RecipeIds : remove(Editor, id)

SpecEdit == Init /\ [][NextEdit]_vars

----------------------------------------------------------------------------
(* SpecImage: the image of a recipe.  One client uploads images, creates     *)
(* recipes with and without an image, edits them with every combination of   *)
(* imageStorageId and removeImage, and deletes uploaded files.               *)

NextImage ==
    \/ /\ Cardinality(uploaded) < MaxUploads + 1
       /\ uploadImage(Editor, Cardinality(uploaded) + 1)
    \/ \E img \in ImageArgs :
        /\ nextRecipeId <= MaxRecipes
        /\ create(Editor, Soup, Omitted, Omitted, img, NoString, FALSE)
    \/ \E id \in RecipeIds, img \in ImageArgs, removeImage \in BOOLEAN :
        update(Editor, id, Soup, Omitted, Omitted, img, removeImage)
    \/ \E sid \in uploaded : deleteImage(Editor, sid)

SpecImage == Init /\ [][NextImage]_vars

----------------------------------------------------------------------------
(* SpecPlan: weekly plans.  Clients create, share and delete recipes, write  *)
(* and delete weekly plans and run the weeklyPlans queries.                  *)

PlanIds == 1..MaxPlans
Weeks == {1}

\* a seven-day array with one recipe on Monday, one with recipes on Monday
\* and Tuesday, and an array of one entry
DayArgs ==
    {[emptyDays EXCEPT ![1].recipeId = r] : r \in RecipeIds \cup {NoRecipe}}
      \cup {[emptyDays EXCEPT ![1].recipeId = 1, ![2].recipeId = 2]}
      \cup {<<[dayOfWeek |-> 0, recipeId |-> NoRecipe]>>}

\* a call of updateWeek that does not insert more than MaxPlans plans
updateWeekBounded(u, w, days) ==
    /\ \/ updateWeekResult(u, w, days).kind = "error"
       \/ byUserAndWeekFirst(u, w) # NoId
       \/ nextPlanId <= MaxPlans
    /\ updateWeek(u, w, days)

NextPlan ==
    \/ \E u \in Callers :
        /\ nextRecipeId <= MaxRecipes
        /\ create(u, Soup, Omitted, Omitted, Undefined, NoString, FALSE)
    \/ \E u \in Callers, id \in RecipeIds : shareRecipe(u, id, soup)
    \/ \E u \in Callers, id \in RecipeIds : remove(u, id)
    \/ \E u \in Callers, w \in Weeks, days \in DayArgs : updateWeekBounded(u, w, days)
    \/ \E u \in Callers, w \in Weeks, d \in {0, 1} : removeRecipeFromDay(u, w, d)
    \/ \E u \in Callers, id \in PlanIds : removePlan(u, id)
    \/ \E u \in Callers, w \in Weeks : getWeek("weeklyPlans.getWeek", u, w)
    \/ \E u \in Callers, w \in Weeks : getWeek("weeklyPlans.getCurrentWeek", u, w)
    \/ \E u \in Callers : planList(u)
    \/ \E u \in Callers, id \in PlanIds : planGetById(u, id)
    \/ \E u \in Callers, id \in PlanIds : generateShoppingList(u, id)

SpecPlan == Init /\ [][NextPlan]_vars

----------------------------------------------------------------------------
(* SpecWeek: writing weekly plans.  Clients create, share and delete recipes *)
(* and write, clear and delete weekly plans.                                 *)

NextWeek ==
    \/ \E u \in Users :
        /\ nextRecipeId <= MaxRecipes
        /\ create(u, Soup, Omitted, Omitted, Undefined, NoString, FALSE)
    \/ \E u \in Users, id \in RecipeIds : shareRecipe(u, id, soup)
    \/ \E u \in Users, id \in RecipeIds : remove(u, id)
    \/ \E u \in Users, w \in Weeks, days \in DayArgs : updateWeekBounded(u, w, days)
    \/ \E u \in Users, w \in Weeks, d \in {0, 1} : removeRecipeFromDay(u, w, d)
    \/ \E u \in Users, id \in PlanIds : removePlan(u, id)

SpecWeek == Init /\ [][NextWeek]_vars

----------------------------------------------------------------------------
(* SpecShop: the shopping list.  One client fills recipes with ingredients,  *)
(* assigns them to Monday and Wednesday and asks for the shopping list.      *)

Shopper == "alice"

ShopRecipeArgs ==
    {<<Soup, <<Salt>>>>, <<Soup, <<saltSp, Rice>>>>, <<Stew, <<Rice>>>>,
     <<Stew, <<Rice, Salt, saltSp>>>>}

\* seven-day arrays with Monday and Wednesday assigned or left empty
ShopDayArgs ==
    {[emptyDays EXCEPT ![1].recipeId = r1, ![3].recipeId = r3] :
        r1 \in RecipeIds \cup {NoRecipe}, r3 \in RecipeIds \cup {NoRecipe}}

NextShop ==
    \/ \E content \in ShopRecipeArgs :
        /\ nextRecipeId <= MaxRecipes
        /\ create(Shopper, content[1], Given(content[2]), Omitted, Undefined,
                  NoString, FALSE)
    \/ \E id \in RecipeIds : remove(Shopper, id)
    \/ \E w \in Weeks, days \in ShopDayArgs : updateWeekBounded(Shopper, w, days)
    \/ \E id \in PlanIds : generateShoppingList(Shopper, id)

SpecShop == Init /\ [][NextShop]_vars

----------------------------------------------------------------------------
(* SpecSlug: slugs.  Two generatePlan actions run at the same time; each     *)
(* query and mutation an action issues is a step of its own, so the steps of *)
(* the two actions interleave.                                               *)

dayRecipe(dayOfWeek, title) ==
    [dayOfWeek |-> dayOfWeek, title |-> title,
     ingredients |-> Given(<<[name |-> Salt, amount |-> <<"1">>]>>),
     steps |-> Given(<<Boil>>)]

\* parsed AI replies: the seven recipes "Soup 1" .. "Soup 7", a reply of
\* six recipes, and the seven recipes with "Soup 2" on Monday as well
SoupWeek == [i \in 1..7 |-> dayRecipe(i - 1, Soup \o <<" ", ToString(i)>>)]
AIReplies ==
    {SoupWeek, SubSeq(SoupWeek, 1, 6), [SoupWeek EXCEPT ![2].dayOfWeek = 0]}

NextSlug ==
    \/ \E p \in Procs, u \in Callers, reply \in AIReplies, aiFailed \in BOOLEAN :
        generatePlanStart(p, u, 1, IF aiFailed THEN <<>> ELSE reply, aiFailed)
    \/ \E p \in Procs : generatePlanCheckSlug(p)
    \/ \E p \in Procs :
        /\ nextRecipeId <= MaxSlugRecipes
        /\ generatePlanCreate(p)
    \/ \E p \in Procs : generatePlanUpdateWeek(p)

SpecSlug == Init /\ [][NextSlug]_vars

----------------------------------------------------------------------------
(* SpecGen: one generatePlan action of a client who deletes recipes while    *)
(* the action runs.                                                          *)

NextGen ==
    \/ \E reply \in AIReplies, aiFailed \in BOOLEAN :
        generatePlanStart(1, Editor, 1, IF aiFailed THEN <<>> ELSE reply, aiFailed)
    \/ generatePlanCheckSlug(1)
    \/ /\ nextRecipeId <= MaxSlugRecipes
       /\ generatePlanCreate(1)
    \/ generatePlanUpdateWeek(1)
    \/ \E id \in RecipeIds : remove(Editor, id)

SpecGen == Init /\ [][NextGen]_vars

----------------------------------------------------------------------------
(* SpecTabs: one client with the edit page of a weekly plan open in two     *)
(* browser tabs.  The client creates recipes and the plan of the week; in    *)
(* each tab the plan arrives and the client assigns a recipe to a day.       *)

NextTabs ==
    \/ /\ nextRecipeId <= MaxRecipes
       /\ create(Editor, Soup, Omitted, Omitted, Undefined, NoString, FALSE)
    \/ /\ planMissing(1)
       /\ updateWeek(Editor, 1, emptyDays)
    \/ \E t \in Tabs : pagePlanLoaded(t, Editor, 1)
    \/ \E t \in Tabs, id \in RecipeIds, d \in {0, 1} :
        /\ ~missing(id)
        /\ handleAssignRecipe(t, id, d)
    \/ \E t \in Tabs : pageUpdateWeek(t, Editor)

SpecTabs == Init /\ [][NextTabs]_vars

----------------------------------------------------------------------------
(* SpecAI: callOpenAI, one retry-loop iteration per step *)

NextAI ==
    \/ callOpenAI
    \/ \E resp \in Responses : callOpenAIAttempt(resp)

SpecAI == Init /\ [][NextAI]_vars

----------------------------------------------------------------------------
(* SpecForm: the image of the recipe form.  The client picks files of       *)
(* several types and sizes; compression, the request of the upload URL and   *)
(* the upload succeed or fail.                                               *)

Files ==
    [type : {"image/jpeg", "image/jpg", "image/png", "image/webp", "image/gif",
             "application/pdf"},
     size : {1, MAX_FILE_SIZE, MAX_FILE_SIZE + 1}]

NextForm ==
    \/ \E file \in Files, compressed \in BOOLEAN :
        processAndUploadImage(file, compressed)
    \/ \E u \in {Shopper, Anon} : formGenerateUploadUrl(u)
    \/ \E ok \in BOOLEAN :
        /\ Cardinality(uploaded) < MaxUploads + 1
        /\ formUpload(Cardinality(uploaded) + 1, ok)

SpecForm == Init /\ [][NextForm]_vars

----------------------------------------------------------------------------
(* SpecReply: AI replies.  The three functions of convex/ai.ts are applied   *)
(* to replies that are not JSON, that lack fields, and that are complete.    *)

RecipeReplies ==
    [json : BOOLEAN, title : {Soup, Stew, <<>>, NoString},
     ingredients : {Omitted, Given(<<>>), Given(<<Salt>>)},
     steps : {Omitted, Given(<<Boil>>)}]

\* a week of complete recipes with one recipe replaced by a deficient one
DeficientWeeks ==
    UNION {{[SoupWeek EXCEPT ![i] = bad] :
               bad \in {[dayRecipe(i - 1, Stew) EXCEPT !.title = NoString],
                        [dayRecipe(i - 1, Stew) EXCEPT !.title = <<>>],
                        [dayRecipe(i - 1, Stew) EXCEPT !.ingredients = Omitted],
                        [dayRecipe(i - 1, Stew) EXCEPT !.steps = Omitted]}} :
           i \in 1..7}

PlanReplies ==
    [json : BOOLEAN,
     recipes : {[i \in 1..7 |-> dayRecipe(i - 1, t[i])] : t \in [1..7 -> {Soup, Stew}]}
                 \cup DeficientWeeks \cup {SubSeq(SoupWeek, 1, 6), <<>>}]

NextReply ==
    \/ \E reply \in RecipeReplies : generateRecipe(reply)
    \/ \E fetched \in BOOLEAN, reply \in RecipeReplies :
        extractRecipeFromUrl(fetched, reply)
    \/ \E reply \in PlanReplies : generateWeeklyPlan(reply)

SpecReply == Init /\ [][NextReply]_vars

----------------------------------------------------------------------------
(* Properties of the recipes functions *)

\* C1: no read query (list, search, getById, getBySlug) returns to caller B a
\* recipe owned by another user unless that recipe is public, and getById
\* with a mismatched identity returns null.
C1_ReadIsolation ==
    LET \* the recipes documents carried by the last query result
        returnedRecipes ==
            IF result.op = "recipes.list" /\ result.kind = "list"
            THEN SeqRange(result.value)
            ELSE IF result.op = "recipes.search" /\ result.kind = "list"
            THEN {result.value[i].recipe : i \in 1..Len(result.value)}
            ELSE IF result.op \in {"recipes.getById", "recipes.getBySlug"}
                    /\ result.kind = "record"
            THEN {result.value.recipe}
            ELSE {}
    IN
    /\ \A r \in returnedRecipes :
          /\ r = doc(r._id)
          /\ r.userId = result.caller \/ r.isPublic
    /\ (result.op = "recipes.getById" /\ ~missing(result.id)
          /\ recipes[result.id].userId # result.caller)
        => result.kind = "null"

C1_Witness ==
    /\ result.op = "recipes.getById"
    /\ result.caller \in Users
    /\ ~missing(result.id)
    /\ recipes[result.id].userId \in Users \ {result.caller}
    /\ ~recipes[result.id].isPublic
    /\ result.kind = "null"
    /\ \E id \in DOMAIN recipes :
          recipes[id].userId # result.caller /\ recipes[id].isPublic

\* C2: update, remove and shareRecipe called by a signed-in user who does not
\* own the recipe throw, and the recipe, its ingredient rows, its step rows
\* and the stored files are what they were before the call.
C2_NonOwnerWriteRejected ==
    [][(/\ result'.op \in {"recipes.update", "recipes.remove", "recipes.shareRecipe"}
        /\ result'.caller \in Users
        /\ ~missing(result'.id)
        /\ recipes[result'.id].userId # result'.caller)
       => (/\ result'.kind = "error"
           /\ UNCHANGED <<recipes, ingredients, recipeSteps, storage>>)]_vars

C2_Witness ==
    /\ result.op = "recipes.update"
    /\ result.kind = "error"
    /\ result.caller \in Users
    /\ ~missing(result.id)
    /\ recipes[result.id].userId # result.caller
    /\ recipes[result.id].imageStorageId \in storage
    /\ byRecipe(ingredients, result.id) # <<>>
    /\ byRecipe(recipeSteps, result.id) # <<>>

\* C3: every ingredients row and every recipeSteps row refers to a recipe
\* that exists; remove leaves no row of the removed recipe behind.
C3_NoOrphanRows ==
    /\ \A i \in 1..Len(ingredients) : ~missing(ingredients[i].recipeId)
    /\ \A i \in 1..Len(recipeSteps) : ~missing(recipeSteps[i].recipeId)

C3_Witness ==
    /\ result.op = "recipes.remove"
    /\ result.kind = "id"
    /\ result.deleted >= 2
    /\ missing(result.id)
    /\ ingredients # <<>>

----------------------------------------------------------------------------
(* Properties of the weeklyPlans functions *)

\* C4: every stored weekly plan has exactly seven days whose dayOfWeek
\* values are 0..6, each once.
C4_SevenDays ==
    \A id \in DOMAIN weeklyPlans :
        /\ Len(weeklyPlans[id].days) = 7
        /\ {weeklyPlans[id].days[i].dayOfWeek : i \in 1..Len(weeklyPlans[id].days)}
             = 0..6

\* C6: the shopping list has one item per normalized ingredient name, and
\* the item's recipeCount is the number of distinct recipes of the plan that
\* contain an ingredient of that name.
C6_RecipeCount ==
    (result.op = "weeklyPlans.generateShoppingList" /\ result.kind = "record")
    => LET items == result.value.items
           \* the recipes of a plan that exist, and the normalized names
           \* they use
           planRecipes(planId) ==
               {r \in SeqRange(planRecipeIds(weeklyPlans[planId].days)) :
                   ~missing(r)}
           recipeNames(r) ==
               {normalizedName(byRecipe(ingredients, r)[i].name) :
                   i \in 1..Len(byRecipe(ingredients, r))}
           rids == planRecipes(result.id)
           names == UNION {recipeNames(r) : r \in rids}
       IN /\ \A n \in names :
                Cardinality({i \in 1..Len(items) : items[i].name = capitalize(n)}) = 1
          /\ \A i \in 1..Len(items) :
                \E n \in names :
                    /\ items[i].name = capitalize(n)
                    /\ items[i].recipeCount
                         = Cardinality({r \in rids : n \in recipeNames(r)})

\* C7: for a caller without identity every query that needs identity
\* returns an empty list or null and does not throw; every mutation and
\* action throws and writes nothing.
C7_AnonymousCaller ==
    [][LET NeedIdentityQueries ==
               {"recipes.list", "recipes.getById", "recipes.search",
                "weeklyPlans.getCurrentWeek", "weeklyPlans.getWeek",
                "weeklyPlans.list", "weeklyPlans.getById",
                "weeklyPlans.generateShoppingList"}
           Mutations ==
               {"recipes.create", "recipes.update", "recipes.remove",
                "recipes.shareRecipe", "recipes.deleteImage",
                "recipes.generateUploadUrl", "weeklyPlans.updateWeek",
                "weeklyPlans.removeRecipeFromDay", "weeklyPlans.remove"}
       IN result'.caller = Anon =>
            /\ result'.op \in NeedIdentityQueries
                 => \/ result'.kind = "null"
                    \/ (result'.kind = "list" /\ result'.value = <<>>)
            /\ result'.op \in Mutations
                 => (result'.kind = "error" /\ UNCHANGED dbVars)]_vars

\* C8: a caller who does not own a record observes the same outcome whether
\* the record exists (owned by somebody else, not public) or does not exist:
\* the same return value or the same error message.  nextRecipeId and
\* nextPlanId are ids of records that do not exist.
C8_SameAsNotFound ==
    LET \* what a caller can observe of an outcome
        observable(r) == [kind |-> r.kind, value |-> r.value, msg |-> r.msg]
        \* the record the last call named exists and belongs to somebody else
        foreignRecipe ==
            /\ result.caller \in Users
            /\ ~missing(result.id)
            /\ recipes[result.id].userId # result.caller
            /\ ~recipes[result.id].isPublic
        foreignPlan ==
            /\ result.caller \in Users
            /\ ~planMissing(result.id)
            /\ weeklyPlans[result.id].userId # result.caller
    IN
    /\ (result.op = "recipes.getById" /\ foreignRecipe)
         => observable(result) = observable(getByIdResult(result.caller, nextRecipeId))
    /\ (result.op = "recipes.update" /\ foreignRecipe)
         => observable(result) = observable(updateResult(result.caller, nextRecipeId))
    /\ (result.op = "recipes.remove" /\ foreignRecipe)
         => observable(result) = observable(removeResult(result.caller, nextRecipeId))
    /\ (result.op = "recipes.shareRecipe" /\ foreignRecipe)
         => observable(result)
              = observable(shareRecipeResult(result.caller, nextRecipeId, soup))
    /\ (result.op = "weeklyPlans.getById" /\ foreignPlan)
         => observable(result) = observable(planGetByIdResult(result.caller, nextPlanId))
    /\ (result.op = "weeklyPlans.remove" /\ foreignPlan)
         => observable(result) = observable(removePlanResult(result.caller, nextPlanId))
    /\ (result.op = "weeklyPlans.generateShoppingList" /\ foreignPlan)
         => observable(result)
              = observable(generateShoppingListResult(result.caller, nextPlanId))
    /\ (result.op = "weeklyPlans.updateWeek" /\ result.kind = "error" /\ foreignRecipe)
         => observable(result)
              = observable(updateWeekResult(result.caller, 1,
                    <<[dayOfWeek |-> result.msg[2], recipeId |-> nextRecipeId]>>))

----------------------------------------------------------------------------
(* Properties of slugs *)

----------------------------------------------------------------------------
(* Properties of callOpenAI *)

\* C9: callOpenAI sends at most three requests; it returns the content of
\* the first attempt that succeeds with content and sends nothing after it;
\* it throws when all three attempts failed.
C9_AtMostThreeRequests ==
    LET \* an attempt that did not produce content
        failedAttempt(resp) == resp.status # 200 \/ resp.content = <<>>
    IN
    /\ Len(ai.log) <= 3
    /\ \A i \in 1..(Len(ai.log) - 1) : failedAttempt(ai.log[i])
    /\ ai.pc = "fetch" =>
          /\ Len(ai.log) < 3
          /\ \A i \in 1..Len(ai.log) : failedAttempt(ai.log[i])
    /\ ai.pc = "returned" =>
          /\ ~failedAttempt(ai.log[Len(ai.log)])
          /\ ai.value = ai.log[Len(ai.log)].content
    /\ ai.pc = "threw" =>
          /\ Len(ai.log) = 3
          /\ failedAttempt(ai.log[3])

C9_Witness ==
    /\ ai.pc = "returned"
    /\ Len(ai.log) = 3
    /\ ai.log[1].status = 429
    /\ ai.log[2].status = 0
    /\ ai.value = ContentB

\* C10: when callOpenAI throws after its attempts are used up, lastError is
\* not null and the thrown message carries the message of the error of the
\* last attempt, whatever the failures were.
C10_LastErrorSurfaced ==
    ai.pc = "threw" =>
        /\ ai.lastError # NoError
        /\ ai.msg.last = errorOf(ai.log[Len(ai.log)])

C10_Witness ==
    /\ ai.pc = "threw"
    /\ ai.log[1].status = 429
    /\ ai.log[2].status = 500
    /\ ai.log[3].status = 429
    /\ ai.msg.last = <<"OpenAI API error:", 429>>

\* C11: the wait before a retry depends on the failure of the attempt just
\* made: after a 429 it is 2000 ms times the 1-based attempt number, so the
\* second such wait is the first multiplied by two; after any other failure
\* it is 1000 ms times the 1-based attempt number; every failed attempt but
\* the last is followed by one wait and the last by none.
C11_RetryDelays ==
    LET failed == {i \in 1..Len(ai.log) :
                      ai.log[i].status # 200 \/ ai.log[i].content = <<>>}
    IN /\ Len(ai.delays) = Cardinality(failed \ {3})
       /\ \A i \in 1..Len(ai.delays) :
             ai.delays[i] = IF ai.log[i].status = 429 THEN 1000 * i * 2
                            ELSE 1000 * i
       /\ (Len(ai.delays) = 2 /\ ai.log[1].status = 429 /\ ai.log[2].status = 429)
            => ai.delays[2] = 2 * ai.delays[1]
       /\ ai.pc = "threw" => Len(ai.delays) = 2

C11_Witness ==
    /\ ai.pc = "threw"
    /\ ai.log[1].status = 429
    /\ ai.log[2].status = 429
    /\ ai.log[3].status = 500
    /\ ai.delays = <<2000, 4000>>

----------------------------------------------------------------------------
(* Properties of editing *)

\* C12: after a successful update(id, ingredients = L, steps = S) by the
\* owner the ingredient rows of the recipe are the elements of L in order
\* with order 0..|L|-1 and the step rows are the elements of S in order with
\* order 0..|S|-1 and stepNumber = order + 1; no earlier row of the recipe
\* remains, also when L or S is omitted or empty.
C12_UpdateReplacesRows ==
    [][\A id \in RecipeIds, L \in IngredientArgs, S \in StepArgs :
          (update(Editor, id, Soup, L, S, Undefined, FALSE) /\ result'.kind = "id")
          => LET names == IF L = Omitted THEN <<>> ELSE L[1]
                 instructions == IF S = Omitted THEN <<>> ELSE S[1]
                 ingsAfter == byRecipe(ingredients', id)
                 stepsAfter == byRecipe(recipeSteps', id)
             IN /\ Len(ingsAfter) = Len(names)
                /\ \A i \in 1..Len(names) :
                      /\ ingsAfter[i].name = names[i]
                      /\ ingsAfter[i].order = i - 1
                /\ Len(stepsAfter) = Len(instructions)
                /\ \A i \in 1..Len(instructions) :
                      /\ stepsAfter[i].instruction = instructions[i]
                      /\ stepsAfter[i].order = i - 1
                      /\ stepsAfter[i].stepNumber = stepsAfter[i].order + 1]_vars

C12_Witness ==
    /\ result.op = "recipes.update"
    /\ result.kind = "id"
    /\ result.deleted = 3
    /\ Len(byRecipe(ingredients, result.id)) = 2
    /\ byRecipe(ingredients, result.id)[1].name = Rice
    /\ byRecipe(recipeSteps, result.id) = <<>>
    /\ \E other \in DOMAIN recipes :
          other # result.id /\ byRecipe(ingredients, other) # <<>>

----------------------------------------------------------------------------
(* Properties of updateWeek *)

\* C13: there is at most one weekly plan per user and week; an updateWeek
\* call for a week that has a plan patches that plan and returns its id, and
\* a call that repeats the stored days leaves the plans as they are.  Two
\* calls issued at the same time are two mutations, which run one after the
\* other.
C13_OnePlanPerWeek ==
    [][/\ \A a \in DOMAIN weeklyPlans', b \in DOMAIN weeklyPlans' :
             (/\ weeklyPlans'[a].userId = weeklyPlans'[b].userId
              /\ weeklyPlans'[a].weekStartDate = weeklyPlans'[b].weekStartDate)
             => a = b
       /\ \A u \in Users, w \in Weeks, days \in DayArgs :
             LET existing == byUserAndWeekFirst(u, w)
             IN (/\ result'.op = "weeklyPlans.updateWeek"
                 /\ result'.kind = "id"
                 /\ result'.caller = u
                 /\ existing # NoId
                 /\ updateWeek(u, w, days))
                => /\ result'.value = existing
                   /\ DOMAIN weeklyPlans' = DOMAIN weeklyPlans
                   /\ weeklyPlans'[existing].days = days
                   /\ \A p \in DOMAIN weeklyPlans \ {existing} :
                         weeklyPlans'[p] = weeklyPlans[p]
                   /\ weeklyPlans[existing].days = days
                        => weeklyPlans' = weeklyPlans]_vars

\* the last call is an updateWeek of the owner of plan 1 made after plan 2
\* was inserted: it found plan 1 and patched it
C13_Witness ==
    /\ result.op = "weeklyPlans.updateWeek"
    /\ result.kind = "id"
    /\ result.value = 1
    /\ DOMAIN weeklyPlans = {1, 2}
    /\ weeklyPlans[1].userId = result.caller
    /\ weeklyPlans[1].days[1].recipeId # NoRecipe

----------------------------------------------------------------------------
(* Properties of the shopping list *)

\* C14: for a plan of the caller generateShoppingList returns totalItems
\* equal to the length of items and to the number of distinct lower-cased,
\* trimmed ingredient names of the existing recipes the plan's days refer
\* to: the distinct ingredient count of the recipe when one day is assigned,
\* and 0 when no day is assigned.
C14_TotalItems ==
    (result.op = "weeklyPlans.generateShoppingList" /\ result.kind = "record")
    => LET days == weeklyPlans[result.id].days
           assigned == {i \in 1..Len(days) : days[i].recipeId # NoRecipe}
           namesOf(r) ==
               IF missing(r) THEN {}
               ELSE {trim(toLowerCase(ingredients[k].name)) :
                        k \in {j \in 1..Len(ingredients) : ingredients[j].recipeId = r}}
           names == UNION {namesOf(days[i].recipeId) : i \in assigned}
       IN /\ result.value.totalItems = Len(result.value.items)
          /\ result.value.totalItems = Cardinality(names)
          /\ assigned = {} => result.value.totalItems = 0
          /\ \A i \in assigned :
                assigned = {i}
                => result.value.totalItems = Cardinality(namesOf(days[i].recipeId))

\* only Wednesday is assigned, to a recipe whose three ingredients have two
\* distinct names
C14_Witness ==
    /\ result.op = "weeklyPlans.generateShoppingList"
    /\ result.kind = "record"
    /\ weeklyPlans[result.id].days[1].recipeId = NoRecipe
    /\ weeklyPlans[result.id].days[3].recipeId # NoRecipe
    /\ ~missing(weeklyPlans[result.id].days[3].recipeId)
    /\ Len(byRecipe(ingredients, weeklyPlans[result.id].days[3].recipeId)) = 3
    /\ result.value.totalItems = 2

----------------------------------------------------------------------------
(* Properties of the AI replies *)

\* C16: generateRecipe, extractRecipeFromUrl and generateWeeklyPlan return
\* no recipe without a title, an ingredients field or a steps field: for a
\* reply that is not JSON or that lacks one of the three, in any of the
\* seven recipes of a week, they throw.
C16_NoDeficientRecipe ==
    [][LET lacks(r) ==
               r.title = NoString \/ r.ingredients = Omitted \/ r.steps = Omitted
       IN /\ (result'.op \in {"ai.generateRecipe", "ai.extractRecipeFromUrl"}
                /\ result'.kind = "record")
              => ~lacks(result'.value)
          /\ (result'.op = "ai.generateWeeklyPlan" /\ result'.kind = "record")
              => \A i \in 1..Len(result'.value) : ~lacks(result'.value[i])
          /\ \A reply \in RecipeReplies :
                ((~reply.json \/ lacks(reply))
                   /\ (generateRecipe(reply) \/ extractRecipeFromUrl(TRUE, reply)))
                => result'.kind = "error"
          /\ \A reply \in PlanReplies :
                ((~reply.json \/ \E i \in 1..Len(reply.recipes) : lacks(reply.recipes[i]))
                   /\ generateWeeklyPlan(reply))
                => result'.kind = "error"]_vars

\* a reply whose sixth recipe has no steps was refused
C16_Witness ==
    /\ result.op = "ai.generateWeeklyPlan"
    /\ result.kind = "error"
    /\ result.msg = <<"Invalid recipe data in weekly plan">>

----------------------------------------------------------------------------
(* Properties of the recipe form *)

\* C17: the form asks for an upload URL and sends the file only after
\* validateImageFile has accepted it (JPEG, PNG or WebP, at most 10MB) and
\* compression has succeeded; for a refused file or a failed compression it
\* asks for no URL, uploads nothing and keeps its imageStorageId.
C17_UploadAfterValidation ==
    [][LET accepted(file) ==
               /\ file.type \in {"image/jpeg", "image/jpg", "image/png", "image/webp"}
               /\ file.size <= 10 * 1024 * 1024
       IN /\ form'.pc \in {"generateUploadUrl", "fetch"}
               => (accepted(form'.file) /\ form'.compressed)
          /\ (result' # result \/ storage' # storage \/ uploaded' # uploaded)
               => (form.pc \in {"generateUploadUrl", "fetch"}
                    /\ accepted(form.file) /\ form.compressed)
          /\ \A file \in Files, compressed \in BOOLEAN :
                (processAndUploadImage(file, compressed)
                   /\ (~accepted(file) \/ ~compressed))
                => /\ form'.pc = "idle"
                   /\ form'.imageStorageId = form.imageStorageId
                   /\ UNCHANGED <<storage, uploaded, result>>]_vars

\* after one image was uploaded, a file of 10MB and one byte was refused:
\* the form still holds the first image
C17_Witness ==
    /\ form.pc = "idle"
    /\ form.last = "validation failed"
    /\ form.file = [type |-> "image/png", size |-> MAX_FILE_SIZE + 1]
    /\ form.imageStorageId = 1
    /\ storage = {1}

----------------------------------------------------------------------------
(* Properties of the recipes of a weekly plan *)

\* C18: updateWeek writes all or nothing: when a day names a recipe that
\* does not exist, or that the caller does not own and that is not public,
\* the call throws and no plan is inserted or patched; when it succeeds,
\* every recipe in the stored days is owned by the caller or public.
C18_AllOrNothing ==
    [][\A u \in Users, w \in Weeks, days \in DayArgs :
          LET allowed(r) == ~missing(r) /\ (recipes[r].userId = u \/ recipes[r].isPublic)
              refused == \E i \in 1..Len(days) :
                            days[i].recipeId # NoRecipe /\ ~allowed(days[i].recipeId)
          IN (/\ result'.op = "weeklyPlans.updateWeek"
              /\ result'.caller = u
              /\ updateWeek(u, w, days))
             => IF refused
                THEN /\ result'.kind = "error"
                     /\ UNCHANGED <<weeklyPlans, nextPlanId>>
                ELSE /\ result'.kind = "id"
                     /\ weeklyPlans'[result'.value].days = days
                     /\ weeklyPlans'[result'.value].userId = u]_vars

\* Monday's recipe passed, Tuesday's was refused, and the caller has a plan
C18_Witness ==
    /\ result.op = "weeklyPlans.updateWeek"
    /\ result.kind = "error"
    /\ result.msg = <<"You don't have access to recipe for day", 1>>
    /\ byUserAndWeekFirst(result.caller, 1) # NoId
    /\ ~missing(1)
    /\ recipes[1].userId = result.caller

\* C19: every recipeId stored in a day of a weekly plan refers to a recipe
\* that exists, also after recipes.remove of a recipe that a plan names.
C19_PlanRecipesExist ==
    \A p \in DOMAIN weeklyPlans :
        \A i \in 1..Len(weeklyPlans[p].days) :
            weeklyPlans[p].days[i].recipeId # NoRecipe
            => ~missing(weeklyPlans[p].days[i].recipeId)

----------------------------------------------------------------------------
(* Properties of stored images *)

\* C20: the stored image of a recipe is deleted only by an operation of the
\* recipe's owner: no operation of another user, recipes.deleteImage
\* included, removes the file that a recipe's imageStorageId names.
C20_OnlyOwnerDeletesImage ==
    [][\A id \in DOMAIN recipes :
          (/\ recipes[id].imageStorageId # Undefined
           /\ recipes[id].imageStorageId \in storage
           /\ recipes[id].imageStorageId \notin storage')
          => result'.caller = recipes[id].userId]_vars

----------------------------------------------------------------------------
(* Properties of sharing *)

\* C21: recipes.shareRecipe(id, slug) called by the owner of recipe id
\* succeeds exactly when recipes.checkSlugExists(slug, excludeRecipeId = id)
\* returns false in the state the mutation ran in.
C21_ShareAgreesWithCheck ==
    [][\A u \in Users, id \in RecipeIds :
          (/\ result'.op = "recipes.shareRecipe"
           /\ result'.caller = u
           /\ result'.id = id
           /\ ~missing(id)
           /\ recipes[id].userId = u
           /\ shareRecipe(u, id, soup))
          => ((result'.kind = "id") <=> ~checkSlugExistsValue(soup, id))]_vars

\* the owner of a recipe was refused a slug that another recipe holds
C21_Witness ==
    /\ result.op = "recipes.shareRecipe"
    /\ result.kind = "error"
    /\ ~missing(result.id)
    /\ recipes[result.id].userId = result.caller
    /\ bySlugFirst(soup) \notin {NoId, result.id}

----------------------------------------------------------------------------
(* Properties of weeklyPlans.generatePlan *)

C23_BothAssignmentsStored ==
    \A a \in Tabs, b \in Tabs :
        (/\ a # b
         /\ page[a].pc = "assigned"
         /\ page[b].pc = "assigned"
         /\ page[a].plan = page[b].plan
         /\ page[a].assigned.dayOfWeek # page[b].assigned.dayOfWeek)
        => \E i \in 1..Len(weeklyPlans[page[a].plan].days) :
              /\ weeklyPlans[page[a].plan].days[i].dayOfWeek
                   = page[a].assigned.dayOfWeek
              /\ weeklyPlans[page[a].plan].days[i].recipeId
                   = page[a].assigned.recipeId

----------------------------------------------------------------------------
(* Properties of the image of a recipe *)

\* C24: an update by the owner with removeImage = true deletes the attached
\* image from storage and clears imageStorageId; with an imageStorageId that
\* differs from the attached one it deletes the old image and stores the new
\* id; with neither argument it leaves imageStorageId and storage as they
\* were.  The update succeeds also when the attached file is already gone.
C24_ImageThreeWays ==
    [][\A id \in RecipeIds, img \in ImageArgs, removeImage \in BOOLEAN :
          (/\ result'.op = "recipes.update"
           /\ result'.id = id
           /\ ~missing(id)
           /\ recipes[id].userId = Editor
           /\ update(Editor, id, Soup, Omitted, Omitted, img, removeImage))
          => LET old == recipes[id].imageStorageId
             IN /\ result'.kind = "id"
                /\ removeImage
                     => /\ recipes'[id].imageStorageId = Undefined
                        /\ old # Undefined => old \notin storage'
                /\ (~removeImage /\ img # Undefined /\ img # old)
                     => /\ recipes'[id].imageStorageId = img
                        /\ old # Undefined => old \notin storage'
                /\ (~removeImage /\ img = Undefined)
                     => /\ recipes'[id].imageStorageId = old
                        /\ storage' = storage]_vars

\* the owner's update has replaced the image of the only recipe: the first
\* upload is gone from storage and the recipe names the second
C24_Witness ==
    /\ result.op = "recipes.update"
    /\ result.kind = "id"
    /\ nextRecipeId = 2
    /\ ~missing(1)
    /\ recipes[1].imageStorageId = 2
    /\ uploaded = {1, 2}
    /\ storage = {2}

====
